---- MODULE Spec2Model ----
(***************************************************************************)
(* islandr.io game server: the session manager of server/src/index.ts      *)
(* (handshake race, heartbeat timer, close listener, inbound packet        *)
(* handler, tick broadcast) and Bullet.tick of store/entities/bullet.ts.   *)
(*                                                                         *)
(* Node runs one callback at a time.  Every action below is one callback   *)
(* (one macrotask), except Resume, which is the part of the async          *)
(* connection handler after its await: a promise job, run before any       *)
(* other callback once the race has settled.                               *)
(***************************************************************************)
EXTENDS Integers, Sequences, FiniteSets, TLC

\* ------------------------------------------------------------------ bounds
MaxConns == 2          \* connections the server receives
TimeStep == 15000      \* milliseconds by which the clock advances in one step
NumJoinSounds == 1     \* Len(world.joinSounds)
MaxOnceSounds == 1     \* most once-sounds one world.tick() emits
MaxSent == 5           \* packets recorded per connection (the rest are sent, not recorded)
NumSlots == 4          \* player.inventory.weapons.length
MaxButton == 1         \* mouse buttons are 0..MaxButton
MaxDelta == 1          \* relative switchweapon deltas are -MaxDelta..MaxDelta
MaxOffset == 1         \* mousemove offsets are -MaxOffset..MaxOffset
MaxDirection == 4      \* a malformed movement packet's direction is -1..MaxDirection
MaxTargets == 2        \* most objects, and most entities, handed to Bullet.tick
MaxDmg == 2            \* a bullet's dmg is 1..MaxDmg
InitialHealth == 3     \* health of every target before the bullet
MaxChanges == 1        \* most elements one world.tick() adds to a per-tick collection

\* ------------------------------------------------------- program constants
HandshakeTimeout == 10000
HeartbeatTimeout == 30000

Conns == 1..MaxConns
Usernames == {"", "alice"}
ResponseIds == 0..MaxConns     \* ids a client may echo; 0 was never issued

Min(a, b) == IF a < b THEN a ELSE b
Max(a, b) == IF a > b THEN a ELSE b

\* What is remembered of a connection's first message: whether it echoed the
\* issued id, and the username it gave.
NoMsg == [any |-> FALSE, echo |-> FALSE, username |-> ""]

\* ------------------------------------------------------------------- Vec2
\* A Vec2 whose coordinates are x / sqrt(d2) and y / sqrt(d2): exact for the
\* sums of axis vectors and their unit vectors, which is all the handler makes.
Vec(x, y) == [x |-> x, y |-> y, d2 |-> 1]
ZERO == Vec(0, 0)

\* Vec2.addVec, of two vectors with d2 = 1
AddVec(a, b) == Vec(a.x + b.x, a.y + b.y)

\* Vec2.unit: the zero vector stays zero, any other is divided by its length
Unit(v) == IF v.x = 0 /\ v.y = 0 THEN ZERO
           ELSE [x |-> v.x, y |-> v.y, d2 |-> v.x * v.x + v.y * v.y]

\* DIRECTION_VEC, indexed from 0: up, down, left, right
DIRECTION_VEC == [i \in 0..3 |->
    CASE i = 0 -> Vec(0, -1) [] i = 1 -> Vec(0, 1) [] i = 2 -> Vec(-1, 0) [] i = 3 -> Vec(1, 0)]

\* ---------------------------------------------------------------- Player
Slots == 0..(NumSlots - 1)
Buttons == 0..MaxButton
\* const movements = [false, false, false, false]
NewMovements == [i \in 0..3 |-> FALSE]
\* const buttons = new Map(): no button has an entry
NewButtons == [b \in Buttons |-> "unset"]
\* The inventories a Player may hold: at least one slot is occupied.
Inventories == {w \in [Slots -> BOOLEAN] : \E i \in Slots : w[i]}
FullInventory == [i \in Slots |-> TRUE]

VARIABLES
    sockState,        \* ws readyState of each connection: none, open, closing, closed
    sockets,          \* keys of the `sockets` map
    numberOfPlayers,
    entities,         \* the Player entities of world.entities, in insertion order
    connected,        \* the handler's `connected` closure variable
    username,         \* the handler's `username` closure variable
    pc,               \* position of the async connection handler
    onceListener,     \* the socket.once("message") listener is still registered
    hsTimer,          \* ms left on wait(10000)
    hbTimer,          \* ms left on the heartbeat timeout
    hbArmed,          \* the heartbeat timeout is scheduled
    sent,             \* packets sent to each connection, oldest first
    movements,        \* the handler's `movements` array, indexed from 0
    buttons,          \* the handler's `buttons` map
    velocity,         \* player.velocity
    direction,        \* player.direction
    tryAttacking,     \* player.tryAttacking
    tryInteracting,   \* player.tryInteracting
    weapons,          \* player.inventory.weapons: which slots hold a weapon
    holding,          \* player.inventory.holding
    crashed,          \* an exception escaped a callback: the process is gone
    \* history variables: what happened, for stating the properties
    firstMsg,         \* the first message the connection delivered
    raceWinner,       \* what settled Promise.race: none, timer, message
    hbClosed,         \* the heartbeat callback closed the open socket
    sinceMsg,         \* ms since the last inbound message of any type (or acceptance)
    sincePing,        \* ms since the last inbound ping (or acceptance)
    pressed,          \* directions whose last movement packet was a press
    moved,            \* a movement packet has been handled
    visits,           \* slots selected by the +1 relative switches made so far
    switched,         \* the last switchweapon packet: its mode, its delta, holding before
    primary,          \* the last mouse packet for button 0: none, press, release
    \* Bullet.tick
    bullet,           \* the Bullet: despawn, dmg, ticks
    objects,          \* the GameObjects handed to tick(), in iteration order
    others,           \* the Entities handed to tick(), in iteration order
    tests,            \* the collision tests of the last tick, in order
    hits,             \* the damage() calls of the last tick, in order
    overlaps,         \* which objects and entities the bullet overlapped in the last tick
    \* the scheduler cycle, statement by statement
    world,            \* the per-tick collections of World: dirty, discard, particles, sounds
    pcTick,           \* position of the setInterval callback: idle, ticked, sent
    cycle             \* history of the running cycle: mutations, sends, input seen,
                      \* and whether a cycle before it made changes

sessionVars == <<sockState, sockets, numberOfPlayers, entities, connected, username,
                 pc, onceListener, hsTimer, hbTimer, hbArmed, sent>>
playerVars == <<movements, buttons, velocity, direction, tryAttacking, tryInteracting,
                weapons, holding>>
histVars == <<firstMsg, raceWinner, hbClosed, sinceMsg, sincePing, pressed, moved,
              visits, switched, primary>>
bulletVars == <<bullet, objects, others, tests, hits, overlaps>>
cycleVars == <<world, pcTick, cycle>>
vars == <<sessionVars, playerVars, crashed, histVars, bulletVars, cycleVars>>

\* ---------------------------------------------------------------- helpers
\* send(socket, packet): the packet goes out; the record keeps the first MaxSent.
Send(log, packet) == IF Len(log) < MaxSent THEN Append(log, packet) ELSE log

RECURSIVE SendAll(_, _)
SendAll(log, packets) ==
    IF packets = <<>> THEN log
    ELSE SendAll(Send(log, Head(packets)), Tail(packets))

Repeat(x, n) == [i \in 1..n |-> x]

\* socket.close(): starts the closing handshake of an open socket, does nothing
\* to one that is closing or closed.
SocketClose(s) == IF s = "open" THEN "closing" ELSE s

\* Mutant: the setInterval callback gives up the thread between its statements.
CycleMayYield == TRUE

\* The setInterval callback is a plain function without await: once it has
\* started, no other callback runs until it has returned.
NoCycleRunning == pcTick = "idle"

\* No promise job is pending, no callback is running and the process is
\* alive: a callback may run.
Idle == ~crashed /\ NoCycleRunning /\ \A c \in Conns : pc[c] # "micro"

\* The socket still delivers messages.
Receiving(c) == sockState[c] \in {"open", "closing"}

\* ----------------------------------------------------------------- Bullet
\* A target of the bullet: a GameObject or an Entity.
NewTarget(vulnerable) == [vulnerable |-> vulnerable, health |-> InitialHealth]

\* new Bullet(dmg, velocity, ticks): an Entity is created alive
NewBullet(dmg, ticks) == [despawn |-> FALSE, dmg |-> dmg, ticks |-> ticks]

\* Entity.damage(amount): a vulnerable target loses health, another loses nothing
Damage(t, amount) == IF t.vulnerable THEN [t EXCEPT !.health = @ - amount] ELSE t

\* Entity.die()
Die(b) == [b EXCEPT !.despawn = TRUE]

\* for (const t of list) if (this.collided(t)) { t.damage(this.dmg); this.die(); break; }
\* st holds the bullet, the list and the two records; colliding is the set of
\* positions in the list whose hitbox overlaps the bullet's.
\* Mutant: the loop goes on after a hit, without the break.
RECURSIVE ScanNoBreak(_, _, _, _)
ScanNoBreak(st, kind, i, colliding) ==
    IF i > Len(st.list) THEN st
    ELSE LET tested == [st EXCEPT !.tests = Append(@, <<kind, i>>)] IN
         IF i \in colliding
         THEN ScanNoBreak([tested EXCEPT !.list[i] = Damage(@, st.bullet.dmg),
                                         !.hits = Append(@, <<kind, i>>),
                                         !.bullet = Die(@)],
                          kind, i + 1, colliding)
         ELSE ScanNoBreak(tested, kind, i + 1, colliding)

RECURSIVE Scan(_, _, _, _)
Scan(st, kind, i, colliding) ==
    IF i > Len(st.list) THEN st
    ELSE LET tested == [st EXCEPT !.tests = Append(@, <<kind, i>>)] IN
         IF i \in colliding
         THEN [tested EXCEPT !.list[i] = Damage(@, st.bullet.dmg),
                             !.hits = Append(@, <<kind, i>>),
                             !.bullet = Die(@)]
         ELSE Scan(tested, kind, i + 1, colliding)

\* Mutant: the pass over the entities runs whatever the object pass did.
EntityPassAlways(b) == TRUE

\* if (!this.despawn) before the pass over the entities
EntityPassRuns(b) == ~b.despawn

\* Bullet.tick(entities, objects), after super.tick has moved the bullet.
BulletTickResult(b, objs, ents, cObj, cEnt) ==
    LET afterObjects == Scan([bullet |-> b, list |-> objs, tests |-> <<>>, hits |-> <<>>],
                             "object", 1, cObj)
        afterEntities ==
            IF EntityPassRuns(afterObjects.bullet)
            THEN Scan([afterObjects EXCEPT !.list = ents], "entity", 1, cEnt)
            ELSE [afterObjects EXCEPT !.list = ents]
    IN [bullet |-> afterEntities.bullet, objects |-> afterObjects.list,
        others |-> afterEntities.list, tests |-> afterEntities.tests,
        hits |-> afterEntities.hits]

NoTick == [ticked |-> FALSE, objects |-> {}, others |-> {}]

\* No bullet has been fired.
NoBullet ==
    /\ bullet = NewBullet(1, 1)
    /\ objects = <<>>
    /\ others = <<>>
    /\ tests = <<>>
    /\ hits = <<>>
    /\ overlaps = NoTick

\* No switchweapon packet has come in.
NoSwitch == [any |-> FALSE, setMode |-> FALSE, delta |-> 0, from |-> 0]

\* The per-tick collections of World, all empty.
EmptyWorld ==
    [dirtyEntities |-> {}, dirtyObstacles |-> {}, discardEntities |-> {},
     discardObstacles |-> {}, particles |-> {}, onceSounds |-> <<>>]

\* No cycle is running.
NoCycle == [mutations |-> EmptyWorld, sends |-> <<>>, seen |-> <<>>, before |-> FALSE]

\* The world between two cycles, before the first one.
QuietWorld ==
    /\ world = EmptyWorld
    /\ pcTick = "idle"
    /\ cycle = NoCycle

\* ------------------------------------------------------------------- Init
\* The server has started and no connection has arrived.  weapons and holding
\* are what the Player of each connection will hold: the Player constructor is
\* not part of index.ts, and the session manager never changes the slots.
Started ==
    /\ sockState = [c \in Conns |-> "none"]
    /\ sockets = {}
    /\ numberOfPlayers = 0
    /\ entities = <<>>
    /\ connected = [c \in Conns |-> FALSE]
    /\ username = [c \in Conns |-> ""]
    /\ pc = [c \in Conns |-> "idle"]
    /\ onceListener = [c \in Conns |-> FALSE]
    /\ hsTimer = [c \in Conns |-> 0]
    /\ hbTimer = [c \in Conns |-> 0]
    /\ hbArmed = [c \in Conns |-> FALSE]
    /\ sent = [c \in Conns |-> <<>>]
    /\ movements = [c \in Conns |-> NewMovements]
    /\ buttons = [c \in Conns |-> NewButtons]
    /\ velocity = [c \in Conns |-> ZERO]
    /\ direction = [c \in Conns |-> ZERO]
    /\ tryAttacking = [c \in Conns |-> FALSE]
    /\ tryInteracting = [c \in Conns |-> FALSE]
    /\ weapons = [c \in Conns |-> FullInventory]
    /\ holding = [c \in Conns |-> 0]
    /\ crashed = FALSE
    /\ firstMsg = [c \in Conns |-> NoMsg]
    /\ raceWinner = [c \in Conns |-> "none"]
    /\ hbClosed = [c \in Conns |-> FALSE]
    /\ sinceMsg = [c \in Conns |-> 0]
    /\ sincePing = [c \in Conns |-> 0]
    /\ pressed = [c \in Conns |-> {}]
    /\ moved = [c \in Conns |-> FALSE]
    /\ visits = [c \in Conns |-> <<>>]
    /\ switched = [c \in Conns |-> NoSwitch]
    /\ primary = [c \in Conns |-> "none"]
    /\ QuietWorld

Init == Started /\ NoBullet

\* ------------------------------------------------------------- connection
\* server.on("connection"), up to the await: ID() is fresh, so connection c is
\* the c-th to arrive and gets id c.
Connect(c) ==
    /\ Idle
    /\ sockState[c] = "none"
    /\ \A d \in Conns : d < c => sockState[d] # "none"
    /\ sockState' = [sockState EXCEPT ![c] = "open"]
    /\ sockets' = sockets \cup {c}
    /\ connected' = [connected EXCEPT ![c] = FALSE]
    /\ username' = [username EXCEPT ![c] = ""]
    /\ hsTimer' = [hsTimer EXCEPT ![c] = HandshakeTimeout]
    /\ sent' = [sent EXCEPT ![c] = Send(@, "ack")]
    /\ onceListener' = [onceListener EXCEPT ![c] = TRUE]
    /\ pc' = [pc EXCEPT ![c] = "await"]
    /\ UNCHANGED <<numberOfPlayers, entities, hbTimer, hbArmed, playerVars, crashed, histVars>>
    /\ UNCHANGED <<bulletVars, cycleVars>>

\* Mutant: the close listener forgets the decrement.
CountAfterCloseForgotten(n, wasConnected) == n

\* if (connected) numberOfPlayers--
CountAfterClose(n, wasConnected) == IF wasConnected THEN n - 1 ELSE n

\* socket.on("close")
OnClose(c) ==
    /\ Idle
    /\ Receiving(c)
    /\ sockState' = [sockState EXCEPT ![c] = "closed"]
    /\ sockets' = sockets \ {c}
    /\ numberOfPlayers' = CountAfterClose(numberOfPlayers, connected[c])
    /\ connected' = [connected EXCEPT ![c] = FALSE]
    /\ UNCHANGED <<entities, username, pc, onceListener, hsTimer, hbTimer, hbArmed, sent,
                   playerVars, crashed, histVars>>
    /\ UNCHANGED <<bulletVars, cycleVars>>

\* Mutant: the check forgets the username.
ResponseOkIdOnly(c, rid, uname) == rid = c

\* decoded.id == id && decoded.username
ResponseOk(c, rid, uname) == rid = c /\ uname # ""

\* socket.once("message"): the first message of the connection, whenever it comes.
OnFirstMessage(c, rid, uname) ==
    /\ Idle
    /\ onceListener[c]
    /\ Receiving(c)
    /\ onceListener' = [onceListener EXCEPT ![c] = FALSE]
    /\ IF ResponseOk(c, rid, uname)
       THEN /\ connected' = [connected EXCEPT ![c] = TRUE]
            /\ username' = [username EXCEPT ![c] = uname]
            /\ UNCHANGED sockState
       ELSE /\ sockState' = [sockState EXCEPT ![c] = SocketClose(@)]
            /\ UNCHANGED <<connected, username>>
    \* resolve(): settles the race unless the timer already has
    /\ pc' = [pc EXCEPT ![c] = IF @ = "await" THEN "micro" ELSE @]
    /\ raceWinner' = [raceWinner EXCEPT ![c] = IF pc[c] = "await" THEN "message" ELSE @]
    /\ firstMsg' = [firstMsg EXCEPT ![c] =
                       [any |-> TRUE, echo |-> rid = c, username |-> uname]]
    \* wait(10000) still fires later, to no effect: its time no longer matters
    /\ hsTimer' = [hsTimer EXCEPT ![c] = 0]
    /\ UNCHANGED <<sockets, numberOfPlayers, entities, hbTimer, hbArmed, sent,
                   playerVars, crashed, hbClosed, sinceMsg, sincePing, pressed, moved,
                   visits, switched, primary>>
    /\ UNCHANGED <<bulletVars, cycleVars>>

\* wait(10000) resolves: the race is settled by the timer.
OnHandshakeTimeout(c) ==
    /\ Idle
    /\ pc[c] = "await"
    /\ hsTimer[c] = 0
    /\ pc' = [pc EXCEPT ![c] = "micro"]
    /\ raceWinner' = [raceWinner EXCEPT ![c] = "timer"]
    /\ UNCHANGED <<sockState, sockets, numberOfPlayers, entities, connected, username,
                   onceListener, hsTimer, hbTimer, hbArmed, sent, playerVars, crashed,
                   firstMsg, hbClosed, sinceMsg, sincePing, pressed, moved,
                   visits, switched, primary>>
    /\ UNCHANGED <<bulletVars, cycleVars>>

\* Mutant: the count goes up twice for one connection.
CountAfterJoinTwice(n) == n + 2

\* numberOfPlayers++
CountAfterJoin(n) == n + 1

\* The packets sent on acceptance, in order.
JoinPackets == <<"map", "game_full">> \o Repeat("sound_join", NumJoinSounds)

\* The connection handler after the await.
Resume(c) ==
    /\ ~crashed
    /\ pc[c] = "micro"
    /\ IF ~connected[c]
       THEN /\ pc' = [pc EXCEPT ![c] = "returned"]
            /\ UNCHANGED <<numberOfPlayers, entities, sent, hbTimer, hbArmed,
                           movements, buttons>>
       ELSE /\ numberOfPlayers' = CountAfterJoin(numberOfPlayers)
            /\ entities' = Append(entities, [id |-> c, username |-> username[c]])
            /\ sent' = [sent EXCEPT ![c] = SendAll(@, JoinPackets)]
            /\ hbTimer' = [hbTimer EXCEPT ![c] = HeartbeatTimeout]
            /\ hbArmed' = [hbArmed EXCEPT ![c] = TRUE]
            /\ movements' = [movements EXCEPT ![c] = NewMovements]
            /\ buttons' = [buttons EXCEPT ![c] = NewButtons]
            /\ pc' = [pc EXCEPT ![c] = "accepted"]
    /\ UNCHANGED <<sockState, sockets, connected, username, onceListener, hsTimer,
                   velocity, direction, tryAttacking, tryInteracting, weapons, holding,
                   crashed, histVars>>
    /\ UNCHANGED <<bulletVars, cycleVars>>

\* ------------------------------------------------------ heartbeat and time
\* The setTimeout callback of the heartbeat: try { socket.close() }
OnHeartbeatTimeout(c) ==
    /\ Idle
    /\ hbArmed[c]
    /\ hbTimer[c] = 0
    /\ hbArmed' = [hbArmed EXCEPT ![c] = FALSE]
    /\ sockState' = [sockState EXCEPT ![c] = SocketClose(@)]
    /\ hbClosed' = [hbClosed EXCEPT ![c] = @ \/ sockState[c] = "open"]
    /\ UNCHANGED <<sockets, numberOfPlayers, entities, connected, username, pc,
                   onceListener, hsTimer, hbTimer, sent, playerVars, crashed,
                   firstMsg, raceWinner, sinceMsg, sincePing, pressed, moved,
                   visits, switched, primary>>
    /\ UNCHANGED <<bulletVars, cycleVars>>

\* The clock advances by TimeStep: every running timer comes that much closer.
\* A timer that is due fires when its callback gets to run, which may be late.
AdvanceTime ==
    /\ Idle
    /\ \E c \in Conns : \/ pc[c] = "await" /\ hsTimer[c] > 0
                        \/ hbArmed[c] /\ hbTimer[c] > 0
    /\ hsTimer' = [c \in Conns |->
                     IF pc[c] = "await" THEN Max(0, hsTimer[c] - TimeStep) ELSE hsTimer[c]]
    /\ hbTimer' = [c \in Conns |->
                     IF hbArmed[c] THEN Max(0, hbTimer[c] - TimeStep) ELSE hbTimer[c]]
    /\ sinceMsg' = [c \in Conns |->
                     IF hbArmed[c] THEN Min(HeartbeatTimeout, sinceMsg[c] + TimeStep)
                     ELSE sinceMsg[c]]
    /\ sincePing' = [c \in Conns |->
                     IF hbArmed[c] THEN Min(HeartbeatTimeout, sincePing[c] + TimeStep)
                     ELSE sincePing[c]]
    /\ UNCHANGED <<sockState, sockets, numberOfPlayers, entities, connected, username, pc,
                   onceListener, hbArmed, sent, playerVars, crashed,
                   firstMsg, raceWinner, hbClosed, pressed, moved, visits, switched, primary>>
    /\ UNCHANGED <<bulletVars, cycleVars>>

\* ------------------------------------------------- socket.on("message")
\* The handler is registered once the connection is accepted, and runs for
\* every message the socket delivers from then on.
Handling(c) == Idle /\ pc[c] = "accepted" /\ Receiving(c)

\* A message of this type has come in on connection c.
Heard(c, type) ==
    /\ sinceMsg' = [sinceMsg EXCEPT ![c] = 0]
    /\ sincePing' = [sincePing EXCEPT ![c] = IF type = "ping" THEN 0 ELSE @]

\* What the handler leaves alone when it touches no player state.
SessionUnchanged ==
    UNCHANGED <<sockState, sockets, numberOfPlayers, entities, connected, username, pc,
                onceListener, hsTimer, sent, crashed, firstMsg, raceWinner, hbClosed>>

\* Mutant: the ping does not touch the timer.
RefreshForgotten(c) == UNCHANGED <<hbTimer, hbArmed>>

\* timeout.refresh(): the timer runs its full delay again from now; Node
\* reschedules a timer that has already fired.
Refresh(c) ==
    /\ hbTimer' = [hbTimer EXCEPT ![c] = HeartbeatTimeout]
    /\ hbArmed' = [hbArmed EXCEPT ![c] = TRUE]

NoRefresh == UNCHANGED <<hbTimer, hbArmed>>

\* case "ping"
OnPing(c) ==
    /\ Handling(c)
    /\ Heard(c, "ping")
    /\ Refresh(c)
    /\ SessionUnchanged
    /\ UNCHANGED <<playerVars, pressed, moved, visits, switched, primary>>
    /\ UNCHANGED <<bulletVars, cycleVars>>

\* movements[direction] = value: an index at or past the length grows the
\* array, the new elements in between are holes (falsy); a negative index
\* sets a property and leaves the array as it was.
SetMovement(m, d, value) ==
    IF d < 0 THEN m
    ELSE [i \in (DOMAIN m) \cup (0..d) |->
            IF i = d THEN value ELSE IF i \in DOMAIN m THEN m[i] ELSE FALSE]

\* addVec(DIRECTION_VEC[ii]) of an index DIRECTION_VEC lacks reads a field of
\* undefined: TypeError.
AngleThrows(m) == \E i \in DOMAIN m : m[i] /\ i \notin DOMAIN DIRECTION_VEC

\* for (ii = 0; ii < movements.length; ii++) if (movements[ii]) angleVec = angleVec.addVec(...)
RECURSIVE AngleFrom(_, _, _)
AngleFrom(m, ii, angleVec) ==
    IF ii \notin DOMAIN m THEN angleVec
    ELSE AngleFrom(m, ii + 1, IF m[ii] THEN AddVec(angleVec, DIRECTION_VEC[ii]) ELSE angleVec)

\* Mutant: the loop starts at index 1.
AngleVecFromOne(m) == AngleFrom(m, 1, ZERO)

AngleVec(m) == AngleFrom(m, 0, ZERO)

\* The common body of case "movementpress" and case "movementrelease".
Move(c, d, value) ==
    LET m == SetMovement(movements[c], d, value) IN
    /\ movements' = [movements EXCEPT ![c] = m]
    /\ IF AngleThrows(m)
       THEN crashed' = TRUE /\ UNCHANGED velocity
       ELSE /\ velocity' = [velocity EXCEPT ![c] = Unit(AngleVec(m))]
            /\ UNCHANGED crashed
    /\ pressed' = [pressed EXCEPT ![c] = IF value THEN @ \cup {d} ELSE @ \ {d}]
    /\ moved' = [moved EXCEPT ![c] = TRUE]
    /\ UNCHANGED <<sockState, sockets, numberOfPlayers, entities, connected, username, pc,
                   onceListener, hsTimer, sent, firstMsg, raceWinner, hbClosed>>
    /\ UNCHANGED <<buttons, direction, tryAttacking, tryInteracting, weapons, holding,
                   visits, switched, primary>>

\* case "movementpress"
OnMovementPress(c, d) ==
    /\ Handling(c)
    /\ Heard(c, "movementpress")
    /\ NoRefresh
    /\ Move(c, d, TRUE)
    /\ UNCHANGED <<bulletVars, cycleVars>>

\* case "movementrelease"
OnMovementRelease(c, d) ==
    /\ Handling(c)
    /\ Heard(c, "movementrelease")
    /\ NoRefresh
    /\ Move(c, d, FALSE)
    /\ UNCHANGED <<bulletVars, cycleVars>>

\* Mutant: any button that is down counts.
ButtonAny(b) == \E i \in DOMAIN b : b[i] = "down"

\* buttons.get(0), as a condition: an absent entry is undefined, which is falsy
Button0(b) == b[0] = "down"

\* case "mousepress"
OnMousePress(c, b) ==
    /\ Handling(c)
    /\ Heard(c, "mousepress")
    /\ NoRefresh
    /\ LET bs == [buttons[c] EXCEPT ![b] = "down"] IN
       /\ buttons' = [buttons EXCEPT ![c] = bs]
       /\ tryAttacking' = [tryAttacking EXCEPT ![c] = IF Button0(bs) THEN TRUE ELSE @]
    /\ primary' = [primary EXCEPT ![c] = IF b = 0 THEN "press" ELSE @]
    /\ SessionUnchanged
    /\ UNCHANGED <<movements, velocity, direction, tryInteracting, weapons, holding,
                   pressed, moved, visits, switched>>
    /\ UNCHANGED <<bulletVars, cycleVars>>

\* case "mouserelease"
OnMouseRelease(c, b) ==
    /\ Handling(c)
    /\ Heard(c, "mouserelease")
    /\ NoRefresh
    /\ LET bs == [buttons[c] EXCEPT ![b] = "up"] IN
       /\ buttons' = [buttons EXCEPT ![c] = bs]
       /\ tryAttacking' = [tryAttacking EXCEPT ![c] = IF ~Button0(bs) THEN FALSE ELSE @]
    /\ primary' = [primary EXCEPT ![c] = IF b = 0 THEN "release" ELSE @]
    /\ SessionUnchanged
    /\ UNCHANGED <<movements, velocity, direction, tryInteracting, weapons, holding,
                   pressed, moved, visits, switched>>
    /\ UNCHANGED <<bulletVars, cycleVars>>

\* case "mousemove"
OnMouseMove(c, x, y) ==
    /\ Handling(c)
    /\ Heard(c, "mousemove")
    /\ NoRefresh
    /\ direction' = [direction EXCEPT ![c] = Vec(x, y)]
    /\ SessionUnchanged
    /\ UNCHANGED <<movements, buttons, velocity, tryAttacking, tryInteracting, weapons,
                   holding, pressed, moved, visits, switched, primary>>
    /\ UNCHANGED <<bulletVars, cycleVars>>

\* case "interact"
OnInteract(c) ==
    /\ Handling(c)
    /\ Heard(c, "interact")
    /\ NoRefresh
    /\ tryInteracting' = [tryInteracting EXCEPT ![c] = TRUE]
    /\ SessionUnchanged
    /\ UNCHANGED <<movements, buttons, velocity, direction, tryAttacking, weapons,
                   holding, pressed, moved, visits, switched, primary>>
    /\ UNCHANGED <<bulletVars, cycleVars>>

\* player.inventory.getWeapon(index): the weapon in that slot, undefined for
\* an empty slot or an index that is no slot
GetWeapon(w, i) == i \in DOMAIN w /\ w[i]

\* if (holding < 0) holding += weapons.length; else holding %= weapons.length;
Wrap(h) == IF h < 0 THEN h + NumSlots ELSE h % NumSlots

\* Iterations after which the while loop is known to repeat itself for ever.
LoopFuel == 2 * NumSlots + MaxDelta + 2

\* while (!getWeapon(holding)) { holding += unitDelta; wrap }
RECURSIVE SkipEmpty(_, _, _, _)
SkipEmpty(w, h, unitDelta, fuel) ==
    IF GetWeapon(w, h) THEN [returns |-> TRUE, holding |-> h]
    ELSE IF fuel = 0 THEN [returns |-> FALSE, holding |-> h]
    ELSE SkipEmpty(w, Wrap(h + unitDelta), unitDelta, fuel - 1)

\* Mutant: the while loop that skips the empty slots is missing.
RelativeSwitchNoSkip(w, h, delta) == [returns |-> TRUE, holding |-> Wrap(h + delta)]

\* The relative mode of case "switchweapon".
RelativeSwitch(w, h, delta) ==
    LET unitDelta == IF delta < 0 THEN -1 ELSE 1
    IN SkipEmpty(w, Wrap(h + delta), unitDelta, LoopFuel)

\* Mutant: the set mode jumps to the slot whatever it holds.
SetSwitchUnchecked(w, h, delta) == delta

\* The set mode of case "switchweapon".
SetSwitch(w, h, delta) == IF GetWeapon(w, delta) THEN delta ELSE h

\* case "switchweapon"
OnSwitchWeapon(c, delta, setMode) ==
    /\ Handling(c)
    /\ Heard(c, "switchweapon")
    /\ NoRefresh
    /\ IF setMode
       THEN /\ holding' = [holding EXCEPT ![c] = SetSwitch(weapons[c], @, delta)]
            /\ visits' = [visits EXCEPT ![c] = <<>>]
            /\ UNCHANGED crashed
       ELSE LET r == RelativeSwitch(weapons[c], holding[c], delta) IN
            IF r.returns
            THEN /\ holding' = [holding EXCEPT ![c] = r.holding]
                 /\ visits' = [visits EXCEPT ![c] =
                        IF delta # 1 THEN <<>>
                        ELSE IF Len(@) > NumSlots THEN <<r.holding>>
                        ELSE Append(@, r.holding)]
                 /\ UNCHANGED crashed
            ELSE \* the loop never ends: no callback runs again
                 /\ crashed' = TRUE
                 /\ UNCHANGED <<holding, visits>>
    /\ switched' = [switched EXCEPT ![c] = [any |-> TRUE, setMode |-> setMode,
                                            delta |-> delta, from |-> holding[c]]]
    /\ UNCHANGED <<sockState, sockets, numberOfPlayers, entities, connected, username, pc,
                   onceListener, hsTimer, sent, firstMsg, raceWinner, hbClosed>>
    /\ UNCHANGED <<movements, buttons, velocity, direction, tryAttacking, tryInteracting,
                   weapons, pressed, moved, primary>>
    /\ UNCHANGED <<bulletVars, cycleVars>>

\* case "reloadweapon": player.reload() is the Player's own business
OnReloadWeapon(c) ==
    /\ Handling(c)
    /\ Heard(c, "reloadweapon")
    /\ NoRefresh
    /\ SessionUnchanged
    /\ UNCHANGED <<playerVars, pressed, moved, visits, switched, primary>>
    /\ UNCHANGED <<bulletVars, cycleVars>>

\* case "usehealing": player.heal(item) is the Player's own business
OnUseHealing(c) ==
    /\ Handling(c)
    /\ Heard(c, "usehealing")
    /\ NoRefresh
    /\ SessionUnchanged
    /\ UNCHANGED <<playerVars, pressed, moved, visits, switched, primary>>
    /\ UNCHANGED <<bulletVars, cycleVars>>

\* ------------------------------------------------------------ tick loop
\* Mutant: the broadcast goes to every socket of the map.
RecipientsEverySocket == sockets

\* players.forEach: the Player entities whose socket is still in the map
Recipients == {entities[i].id : i \in DOMAIN entities} \cap sockets

\* What one recipient is sent in one tick.
TickPackets(particles, nOnce) ==
    <<"game_partial">> \o (IF particles THEN <<"particles">> ELSE <<>>)
                       \o Repeat("sound_once", nOnce)

\* The setInterval callback: world.tick(), the broadcast, world.postTick().
\* world.tick() leaves some particles or none and nOnce once-sounds, which
\* postTick() clears again.
Tick(particles, nOnce) ==
    /\ Idle
    /\ sent' = [c \in Conns |->
                  IF c \in Recipients THEN SendAll(sent[c], TickPackets(particles, nOnce))
                  ELSE sent[c]]
    /\ UNCHANGED <<sockState, sockets, numberOfPlayers, entities, connected, username, pc,
                   onceListener, hsTimer, hbTimer, hbArmed, playerVars, crashed, histVars>>
    /\ UNCHANGED <<bulletVars, cycleVars>>

\* ------------------------------------------- tick loop, step by step
\* The same callback, one statement at a time and with the contents of the
\* per-tick collections, where Tick above takes it as a whole and keeps of the
\* contents only what decides the types of the packets.
Changes == 1..MaxChanges

\* What one world.tick() may add to the per-tick collections.
Mutations ==
    {[dirtyEntities |-> d, dirtyObstacles |-> d, discardEntities |-> x,
      discardObstacles |-> x, particles |-> IF p THEN {1} ELSE {},
      onceSounds |-> [i \in 1..n |-> i]] :
        d \in SUBSET Changes, x \in SUBSET Changes, p \in BOOLEAN, n \in 0..MaxOnceSounds}

\* world.tick(): the mutations of this tick are added to the collections.
WorldTick(w, mut) ==
    [dirtyEntities |-> w.dirtyEntities \cup mut.dirtyEntities,
     dirtyObstacles |-> w.dirtyObstacles \cup mut.dirtyObstacles,
     discardEntities |-> w.discardEntities \cup mut.discardEntities,
     discardObstacles |-> w.discardObstacles \cup mut.discardObstacles,
     particles |-> w.particles \cup mut.particles,
     onceSounds |-> w.onceSounds \o mut.onceSounds]

\* world.postTick(): the per-tick collections are emptied.
PostTick(w) == EmptyWorld

\* Mutant: the callback returns after the broadcast, without postTick().
NextPhaseNoPostTick(p) == IF p = "idle" THEN "ticked" ELSE "idle"

\* The statements of the callback in their order: world.tick(), the
\* broadcast, world.postTick(), and the return.
NextPhase(p) ==
    IF p = "idle" THEN "ticked" ELSE IF p = "ticked" THEN "sent" ELSE "idle"

\* new GamePacket(dirtyEntities, dirtyObstacles, player, numberOfPlayers, false,
\* discardEntities, discardObstacles)
GamePartial(w) ==
    [type |-> "game_partial", full |-> FALSE,
     dirtyEntities |-> w.dirtyEntities, dirtyObstacles |-> w.dirtyObstacles,
     discardEntities |-> w.discardEntities, discardObstacles |-> w.discardObstacles]

\* Mutant: the particles packet is sent in every tick.
ParticlesAlways(w) == TRUE

\* if (world.particles.length)
ParticlesDue(w) == w.particles # {}

\* The packets one player is sent in the broadcast, in order.
PacketsFor(w) ==
    <<GamePartial(w)>>
    \o (IF ParticlesDue(w) THEN <<[type |-> "particles", particles |-> w.particles]>>
        ELSE <<>>)
    \o [i \in 1..Len(w.onceSounds) |-> [type |-> "sound_once", sound |-> w.onceSounds[i]]]

PacketTypes(packets) == [i \in DOMAIN packets |-> packets[i].type]

\* players.forEach from the i-th player on: a player whose socket is not in
\* the map is passed over, every other one is sent the packets.
RECURSIVE Broadcast(_, _, _)
Broadcast(players, i, w) ==
    IF i > Len(players) THEN <<>>
    ELSE (IF players[i].id \in sockets
          THEN <<[to |-> players[i].id, packets |-> PacketsFor(w)]>>
          ELSE <<>>) \o Broadcast(players, i + 1, w)

\* world.tick(), with the mutations mut.  It reads the Player fields as the
\* handlers have left them.
WorldTickStep(mut) ==
    /\ Idle
    /\ pcTick = "idle"
    /\ world' = WorldTick(world, mut)
    /\ pcTick' = NextPhase(pcTick)
    /\ cycle' = [mutations |-> mut, sends |-> <<>>, seen |-> velocity,
                 before |-> cycle.before]
    /\ UNCHANGED <<sessionVars, playerVars, crashed, histVars, bulletVars>>

\* The filter and players.forEach.
BroadcastStep ==
    /\ ~crashed
    /\ pcTick = "ticked"
    /\ sent' = [c \in Conns |->
                  IF c \in Recipients
                  THEN SendAll(sent[c], PacketTypes(PacketsFor(world)))
                  ELSE sent[c]]
    /\ pcTick' = NextPhase(pcTick)
    /\ cycle' = [cycle EXCEPT !.sends = Broadcast(entities, 1, world)]
    /\ UNCHANGED <<sockState, sockets, numberOfPlayers, entities, connected, username, pc,
                   onceListener, hsTimer, hbTimer, hbArmed, playerVars, crashed, histVars>>
    /\ UNCHANGED <<bulletVars, world>>

\* world.postTick() and the return of the callback.
PostTickStep ==
    /\ ~crashed
    /\ pcTick = "sent"
    /\ world' = PostTick(world)
    /\ pcTick' = NextPhase(pcTick)
    /\ cycle' = [NoCycle EXCEPT !.before = cycle.before \/ cycle.mutations # EmptyWorld]
    /\ UNCHANGED <<sessionVars, playerVars, crashed, histVars, bulletVars>>

\* ---------------------------------------------------------- Bullet.tick
\* One tick of a live bullet.  cObj and cEnt are the objects and entities its
\* hitbox overlaps once super.tick has moved it.
BulletTick(cObj, cEnt) ==
    /\ ~bullet.despawn
    /\ LET r == BulletTickResult(bullet, objects, others, cObj, cEnt) IN
       /\ bullet' = r.bullet
       /\ objects' = r.objects
       /\ others' = r.others
       /\ tests' = r.tests
       /\ hits' = r.hits
    /\ overlaps' = [ticked |-> TRUE, objects |-> cObj, others |-> cEnt]
    /\ UNCHANGED <<sessionVars, playerVars, crashed, histVars, cycleVars>>

\* ------------------------------------------------------- specifications
\* The session manager: connections, handshake, heartbeat, close, broadcast.
Next ==
    \/ \E c \in Conns : Connect(c)
    \/ \E c \in Conns : OnClose(c)
    \/ \E c \in Conns, rid \in ResponseIds, uname \in Usernames : OnFirstMessage(c, rid, uname)
    \/ \E c \in Conns : OnHandshakeTimeout(c)
    \/ \E c \in Conns : Resume(c)
    \/ \E c \in Conns : OnHeartbeatTimeout(c)
    \/ \E c \in Conns : OnPing(c)
    \/ AdvanceTime
    \/ \E particles \in BOOLEAN, nOnce \in 0..MaxOnceSounds : Tick(particles, nOnce)

Spec == Init /\ [][Next]_vars

\* The state Spec reaches when connection 1 has been accepted and nothing else
\* has happened, with the inventory w and the holding index h.
Accepted(w, h) ==
    /\ sockState = [c \in Conns |-> IF c = 1 THEN "open" ELSE "none"]
    /\ sockets = {1}
    /\ numberOfPlayers = 1
    /\ entities = <<[id |-> 1, username |-> "alice"]>>
    /\ connected = [c \in Conns |-> c = 1]
    /\ username = [c \in Conns |-> IF c = 1 THEN "alice" ELSE ""]
    /\ pc = [c \in Conns |-> IF c = 1 THEN "accepted" ELSE "idle"]
    /\ onceListener = [c \in Conns |-> FALSE]
    /\ hsTimer = [c \in Conns |-> 0]
    /\ hbTimer = [c \in Conns |-> IF c = 1 THEN HeartbeatTimeout ELSE 0]
    /\ hbArmed = [c \in Conns |-> c = 1]
    /\ sent = [c \in Conns |-> IF c = 1 THEN SendAll(<<"ack">>, JoinPackets) ELSE <<>>]
    /\ movements = [c \in Conns |-> NewMovements]
    /\ buttons = [c \in Conns |-> NewButtons]
    /\ velocity = [c \in Conns |-> ZERO]
    /\ direction = [c \in Conns |-> ZERO]
    /\ tryAttacking = [c \in Conns |-> FALSE]
    /\ tryInteracting = [c \in Conns |-> FALSE]
    /\ weapons = [c \in Conns |-> IF c = 1 THEN w ELSE FullInventory]
    /\ holding = [c \in Conns |-> IF c = 1 THEN h ELSE 0]
    /\ crashed = FALSE
    /\ firstMsg = [c \in Conns |->
                     IF c = 1 THEN [any |-> TRUE, echo |-> TRUE, username |-> "alice"]
                     ELSE NoMsg]
    /\ raceWinner = [c \in Conns |-> IF c = 1 THEN "message" ELSE "none"]
    /\ hbClosed = [c \in Conns |-> FALSE]
    /\ sinceMsg = [c \in Conns |-> 0]
    /\ sincePing = [c \in Conns |-> 0]
    /\ pressed = [c \in Conns |-> {}]
    /\ moved = [c \in Conns |-> FALSE]
    /\ visits = [c \in Conns |-> <<>>]
    /\ switched = [c \in Conns |-> NoSwitch]
    /\ primary = [c \in Conns |-> "none"]
    /\ QuietWorld

\* One accepted connection and its heartbeat: every type of inbound packet,
\* the clock, the heartbeat timeout, the close event and the tick.
InitHeartbeat == Accepted(FullInventory, 0) /\ NoBullet

NextHeartbeat ==
    \/ OnPing(1)
    \/ OnMovementPress(1, 0)
    \/ OnMovementRelease(1, 0)
    \/ OnMousePress(1, 0)
    \/ OnMouseRelease(1, 0)
    \/ OnMouseMove(1, 1, 0)
    \/ OnInteract(1)
    \/ OnSwitchWeapon(1, 0, TRUE)
    \/ OnReloadWeapon(1)
    \/ OnUseHealing(1)
    \/ AdvanceTime
    \/ OnHeartbeatTimeout(1)
    \/ OnClose(1)
    \/ \E particles \in BOOLEAN, nOnce \in 0..MaxOnceSounds : Tick(particles, nOnce)

SpecHeartbeat == InitHeartbeat /\ [][NextHeartbeat]_vars

\* One accepted connection and its movement, mouse and interact packets,
\* with every well-formed field value.
Directions == 0..3
Offsets == (-MaxOffset)..MaxOffset

InitInput == Accepted(FullInventory, 0) /\ NoBullet

NextInput ==
    \/ \E d \in Directions : OnMovementPress(1, d)
    \/ \E d \in Directions : OnMovementRelease(1, d)
    \/ \E b \in Buttons : OnMousePress(1, b)
    \/ \E b \in Buttons : OnMouseRelease(1, b)
    \/ \E x \in Offsets, y \in Offsets : OnMouseMove(1, x, y)
    \/ OnInteract(1)

SpecInput == InitInput /\ [][NextInput]_vars

\* One accepted connection and its weapon packets, from every inventory that
\* holds a weapon and every holding index.
Deltas == (-MaxDelta)..MaxDelta
SetTargets == -1..NumSlots

InitWeapon == NoBullet /\ \E w \in Inventories, h \in Slots : Accepted(w, h)

NextWeapon ==
    \/ \E delta \in Deltas : OnSwitchWeapon(1, delta, FALSE)
    \/ \E delta \in SetTargets : OnSwitchWeapon(1, delta, TRUE)
    \/ OnReloadWeapon(1)
    \/ OnUseHealing(1)

SpecWeapon == InitWeapon /\ [][NextWeapon]_vars

\* The switchweapon packets alone, with deltas that reach further than the
\* number of slots in both directions.
WideDeltas == (-(NumSlots + MaxDelta + 1))..(NumSlots + MaxDelta + 1)

NextSwitch ==
    \/ \E delta \in WideDeltas : OnSwitchWeapon(1, delta, FALSE)
    \/ \E delta \in SetTargets : OnSwitchWeapon(1, delta, TRUE)

SpecSwitch == InitWeapon /\ [][NextSwitch]_vars

\* A bullet of any dmg and the lists of any targets, ticked until it hits.
TargetLists == UNION {[1..n -> {NewTarget(TRUE), NewTarget(FALSE)}] : n \in 0..MaxTargets}

InitBullet ==
    /\ Started
    /\ bullet \in {NewBullet(dmg, 1) : dmg \in 1..MaxDmg}
    /\ objects \in TargetLists
    /\ others \in TargetLists
    /\ tests = <<>>
    /\ hits = <<>>
    /\ overlaps = NoTick

NextBullet ==
    \E cObj \in SUBSET DOMAIN objects, cEnt \in SUBSET DOMAIN others : BulletTick(cObj, cEnt)

SpecBullet == InitBullet /\ [][NextBullet]_vars

\* One accepted connection and packets whose fields a client is free to
\* choose badly: a direction that is no direction.
AnyDirections == -1..MaxDirection

NextAnyInput ==
    \/ \E d \in AnyDirections : OnMovementPress(1, d)
    \/ \E d \in AnyDirections : OnMovementRelease(1, d)
    \/ \E delta \in Deltas : OnSwitchWeapon(1, delta, FALSE)
    \/ \E delta \in SetTargets : OnSwitchWeapon(1, delta, TRUE)
    \/ OnPing(1)
    \/ \E particles \in BOOLEAN, nOnce \in 0..MaxOnceSounds : Tick(particles, nOnce)

SpecAnyInput == InitInput /\ [][NextAnyInput]_vars

\* The scheduler cycle statement by statement, among connections that join
\* with a well-formed response and close, the first of which sends movement
\* packets.
NextCycle ==
    \/ \E c \in Conns : Connect(c)
    \/ \E c \in Conns : OnFirstMessage(c, c, "alice")
    \/ \E c \in Conns : Resume(c)
    \/ \E c \in Conns : OnClose(c)
    \/ OnMovementPress(1, 1)
    \/ OnMovementRelease(1, 1)
    \/ \E mut \in Mutations : WorldTickStep(mut)
    \/ BroadcastStep
    \/ PostTickStep

SpecCycle == Init /\ [][NextCycle]_vars

\* ======================================================================
\* Properties
\* ======================================================================
\* The Player entities world.entities holds for connection c.
PlayersOf(c) == {i \in DOMAIN entities : entities[i].id = c}

\* The first message of connection c was a well-formed response: it echoed
\* the issued id and gave a username.
ValidResponse(c) == firstMsg[c].any /\ firstMsg[c].echo /\ firstMsg[c].username # ""

\* The first message of connection c was malformed.
Malformed(c) == firstMsg[c].any /\ ~(firstMsg[c].echo /\ firstMsg[c].username # "")

\* The server has closed the socket of c, or the close has completed.
ClosedByServer(c) == sockState[c] \in {"closing", "closed"}

\* C1: once the 10-second timer has settled the handshake of a connection, the
\* server has closed that connection, holds no Player for it, and the
\* connection can no longer change the player count.
C1_TimeoutClosesConnection ==
    \A c \in Conns :
        (raceWinner[c] = "timer" /\ pc[c] = "returned") =>
            /\ ClosedByServer(c)
            /\ PlayersOf(c) = {}
            /\ ~connected[c]

\* C2: a well-formed response that settles the handshake before the timer
\* gets the connection accepted with exactly one Player carrying its id and
\* username, and the player count goes up by exactly one, at acceptance only.
C2_Accepted ==
    \A c \in Conns :
        (raceWinner[c] = "message" /\ ValidResponse(c) /\ pc[c] # "micro") =>
            /\ pc[c] = "accepted"
            /\ Cardinality(PlayersOf(c)) = 1
            /\ \A i \in PlayersOf(c) : entities[i].username = firstMsg[c].username

C2_CountStep ==
    /\ \A c \in Conns :
          (pc[c] = "micro" /\ raceWinner[c] = "message" /\ ValidResponse(c)) =>
              /\ numberOfPlayers' = numberOfPlayers + 1
              /\ entities' = Append(entities, [id |-> c, username |-> firstMsg[c].username])
    /\ numberOfPlayers' > numberOfPlayers =>
          \E c \in Conns : /\ pc[c] = "micro" /\ pc'[c] = "accepted"
                           /\ numberOfPlayers' = numberOfPlayers + 1

C2_HandshakeSuccess == []C2_Accepted /\ [][C2_CountStep]_vars

C2_Witness ==
    \E c \in Conns : /\ raceWinner[c] = "message" /\ ValidResponse(c)
                     /\ pc[c] = "accepted" /\ numberOfPlayers = 1
                     /\ entities = <<[id |-> c, username |-> "alice"]>>

\* C3: after a malformed first message the server has closed the connection,
\* there is no Player for it, it is never accepted, and no step of that
\* connection, its close event included, changes the player count.
C3_Rejected ==
    \A c \in Conns :
        Malformed(c) =>
            /\ ClosedByServer(c)
            /\ PlayersOf(c) = {}
            /\ pc[c] # "accepted"
            /\ ~connected[c]

C3_CountStep ==
    \A c \in Conns :
        (Malformed(c) /\ (sockState'[c] # sockState[c] \/ pc'[c] # pc[c])) =>
            numberOfPlayers' = numberOfPlayers

C3_MalformedResponse == []C3_Rejected /\ [][C3_CountStep]_vars

C3_Witness ==
    \E c \in Conns : /\ Malformed(c) /\ sockState[c] = "closed" /\ pc[c] = "returned"
                     /\ numberOfPlayers = 0 /\ entities = <<>>

\* What an accepted connection is sent up to the end of its acceptance.
JoinSequence == <<"ack">> \o JoinPackets

\* C4: ack is the first packet of every connection; an accepted connection
\* is sent ack, map, one full game packet and the join sounds, in that
\* order, before anything else, and none of these again; no partial game
\* packet precedes the full one; a connection that is not accepted has been
\* sent nothing but ack.
C4_OutboundOrder ==
    \A c \in Conns :
        LET log == sent[c] IN
        /\ sockState[c] # "none" => (Len(log) >= 1 /\ log[1] = "ack")
        /\ pc[c] = "accepted" =>
              /\ Len(log) >= Min(MaxSent, Len(JoinSequence))
              /\ \A i \in DOMAIN log :
                    IF i <= Len(JoinSequence) THEN log[i] = JoinSequence[i]
                    ELSE log[i] \in {"game_partial", "particles", "sound_once"}
        /\ pc[c] # "accepted" => log \in {<<>>, <<"ack">>}
        /\ \A i \in DOMAIN log :
              log[i] = "game_partial" => \E j \in 1..(i - 1) : log[j] = "game_full"

C4_Witness ==
    \E c, d \in Conns :
        /\ pc[c] = "accepted"
        /\ Len(sent[c]) > Len(JoinSequence)
        /\ sent[c][Len(JoinSequence) + 1] = "game_partial"
        /\ pc[d] = "returned" /\ sent[d] = <<"ack">>

\* The heartbeat timeout of c fires in this step.
HeartbeatFires(c) == hbArmed[c] /\ ~hbArmed'[c]

\* The close event of c is handled in this step.
CloseHandled(c) == sockState[c] # "closed" /\ sockState'[c] = "closed"

\* C7: a heartbeat timeout that fires on an open connection closes it and
\* itself changes neither the socket set nor the count, also when the
\* connection is closed already; the close event of an accepted connection
\* removes it from the socket set and takes exactly one off the count; the
\* count goes down in no other step, and a closed connection stays out of
\* the set and can take nothing more off the count.
C7_Closed ==
    \A c \in Conns : sockState[c] = "closed" => (c \notin sockets /\ ~connected[c])

C7_Step ==
    /\ \A c \in Conns :
          HeartbeatFires(c) =>
              /\ sockState[c] = "open" => sockState'[c] = "closing"
              /\ sockState[c] # "open" => sockState'[c] = sockState[c]
              /\ sockets' = sockets
              /\ numberOfPlayers' = numberOfPlayers
    /\ \A c \in Conns :
          (CloseHandled(c) /\ pc[c] = "accepted") =>
              /\ sockets' = sockets \ {c}
              /\ numberOfPlayers' = numberOfPlayers - 1
    /\ numberOfPlayers' < numberOfPlayers =>
          \E c \in Conns : CloseHandled(c) /\ numberOfPlayers' = numberOfPlayers - 1
    /\ \A c \in Conns : sockState[c] = "closed" => sockState'[c] = "closed"

C7_HeartbeatExpiry == []C7_Closed /\ [][C7_Step]_vars

\* The heartbeat closed an accepted connection and its close event has been
\* handled; another accepted connection was closed by its client first and
\* its heartbeat timeout has fired since.
C7_Witness ==
    \E c, d \in Conns :
        /\ hbClosed[c] /\ sockState[c] = "closed" /\ c \notin sockets
        /\ pc[d] = "accepted" /\ sockState[d] = "closed" /\ ~hbClosed[d] /\ ~hbArmed[d]
        /\ numberOfPlayers = 0

\* The sum of the direction vectors of a set of directions.
RECURSIVE SumDirections(_)
SumDirections(S) ==
    IF S = {} THEN ZERO
    ELSE LET d == CHOOSE e \in S : TRUE
         IN AddVec(DIRECTION_VEC[d], SumDirections(S \ {d}))

\* C5: once a movement packet has been handled, the player's velocity is the
\* unit vector of the sum of the direction vectors of the directions now
\* pressed: zero when that sum is zero (none pressed, or opposite ones only),
\* and the vector of direction 1 when direction 1 alone is pressed.
C5_MovementVelocity ==
    \A c \in Conns :
        moved[c] =>
            /\ velocity[c] = Unit(SumDirections(pressed[c]))
            /\ SumDirections(pressed[c]) = ZERO => velocity[c] = ZERO
            /\ pressed[c] = {1} => velocity[c] = DIRECTION_VEC[1]

\* Direction 1 and a direction at right angles to it are pressed: the
\* velocity is their sum divided by the square root of 2.
C5_Witness ==
    /\ moved[1]
    /\ Cardinality(pressed[1]) = 2 /\ 1 \in pressed[1]
    /\ velocity[1].d2 = 2
    /\ velocity[1].y = DIRECTION_VEC[1].y /\ velocity[1].x # 0

\* C6, as claimed: the heartbeat never closes a connection that sent a
\* message of any type less than 30 seconds before.
C6_AnyMessageKeepsAlive ==
    [][\A c \in Conns :
          (HeartbeatFires(c) /\ sockState[c] = "open") => sinceMsg[c] >= HeartbeatTimeout]_vars

\* C6, amended: the heartbeat never closes a connection that sent a ping less
\* than 30 seconds before, and nothing but a ping restarts the timer.
C6_PingStep ==
    \A c \in Conns :
        /\ HeartbeatFires(c) => sincePing[c] >= HeartbeatTimeout
        /\ (hbTimer'[c] > hbTimer[c] \/ (~hbArmed[c] /\ hbArmed'[c])) =>
              (pc[c] = "accepted" => sincePing'[c] = 0)

C6_PingKeepsAlive == [][C6_PingStep]_vars

\* The heartbeat has closed a connection that had sent a message, not a
\* ping, less than 30 seconds before.
C6_Witness ==
    \E c \in Conns : hbClosed[c] /\ sinceMsg[c] < HeartbeatTimeout
                     /\ sincePing[c] >= HeartbeatTimeout

\* The occupied slots of the player of connection c.
Occupied(c) == {i \in Slots : weapons[c][i]}

\* C8: the slots selected by successive relative switches of delta +1 are
\* occupied; the first k of them, k the number of occupied slots, are
\* distinct and are all the occupied slots; the next is the first again.
C8_WeaponCycle ==
    \A c \in Conns :
        LET v == visits[c]
            k == Cardinality(Occupied(c))
        IN /\ \A i \in DOMAIN v : v[i] \in Occupied(c)
           /\ \A i, j \in DOMAIN v : (i < j /\ j <= k) => v[i] # v[j]
           /\ Len(v) >= k => {v[i] : i \in 1..k} = Occupied(c)
           /\ Len(v) > k => v[k + 1] = v[1]
           /\ v # <<>> => holding[c] = v[Len(v)]

\* A full cycle and one more step, over an inventory with an empty slot and
\* several weapons, started from an empty slot.
C8_Witness ==
    /\ Len(visits[1]) = Cardinality(Occupied(1)) + 1
    /\ Cardinality(Occupied(1)) >= 2
    /\ Occupied(1) # Slots
    /\ ~weapons[1][0] /\ weapons[1][NumSlots - 1]

\* The smallest element of a non-empty set of positions.
First(S) == CHOOSE i \in S : \A j \in S : i <= j

\* The health a target has after the tick, given its health before.
HealthAfter(t, wasHit) ==
    IF wasHit /\ t.vulnerable THEN InitialHealth - bullet.dmg ELSE InitialHealth

\* C9: in one tick of a live bullet damage() is called at most once: on the
\* first overlapping object, or, when no object overlaps, on the first
\* overlapping entity; nothing else loses health; the bullet despawns exactly
\* when something overlapped; after a hit in the object pass no entity is
\* tested.
C9_FirstHitWins ==
    overlaps.ticked =>
        LET cObj == overlaps.objects
            cEnt == overlaps.others
            expected == IF cObj # {} THEN <<<<"object", First(cObj)>>>>
                        ELSE IF cEnt # {} THEN <<<<"entity", First(cEnt)>>>>
                        ELSE <<>>
        IN /\ hits = expected
           /\ bullet.despawn <=> (cObj # {} \/ cEnt # {})
           /\ cObj # {} => \A i \in DOMAIN tests : tests[i][1] # "entity"
           /\ \A i \in DOMAIN objects :
                 objects[i].health = HealthAfter(objects[i], <<"object", i>> \in {hits[j] : j \in DOMAIN hits})
           /\ \A i \in DOMAIN others :
                 others[i].health = HealthAfter(others[i], <<"entity", i>> \in {hits[j] : j \in DOMAIN hits})

\* Two objects and an entity overlap the bullet at once: the first object,
\* which is vulnerable, is the only one that lost health.
C9_Witness ==
    /\ overlaps.ticked
    /\ overlaps.objects = {1, 2} /\ overlaps.others # {}
    /\ objects[1].health < InitialHealth
    /\ objects[2].vulnerable /\ objects[2].health = InitialHealth
    /\ bullet.despawn

\* C10: whatever packet comes in, the handler returns and the process goes on
\* running callbacks.
C10_HandlerAlwaysReturns == ~crashed

\* C11: the player count is the number of connections that were accepted and
\* have not closed yet; it is never negative.
C11_PlayerCount ==
    /\ numberOfPlayers >= 0
    /\ numberOfPlayers =
          Cardinality({c \in Conns : pc[c] = "accepted" /\ sockState[c] # "closed"})

\* The game packet of the send s carries exactly the changes m.
CarriesExactly(s, m) ==
    /\ s.packets[1] = [type |-> "game_partial", full |-> FALSE,
                       dirtyEntities |-> m.dirtyEntities,
                       dirtyObstacles |-> m.dirtyObstacles,
                       discardEntities |-> m.discardEntities,
                       discardObstacles |-> m.discardObstacles]
    /\ \A i \in DOMAIN s.packets :
          /\ s.packets[i].type = "particles" => s.packets[i].particles = m.particles
          /\ s.packets[i].type = "sound_once" =>
                \E j \in DOMAIN m.onceSounds : s.packets[i].sound = m.onceSounds[j]

\* C12: between two cycles the per-tick collections are empty; after
\* world.tick() they hold the mutations of that tick and nothing of an earlier
\* one; every recipient of the broadcast is sent the same packets, with
\* exactly those mutations; and the callback does world.tick(), the
\* broadcast and world.postTick() in that order, each once, postTick leaving
\* every collection empty.
C12_Sets ==
    /\ pcTick = "idle" => world = EmptyWorld
    /\ pcTick # "idle" => world = cycle.mutations
    /\ pcTick = "sent" =>
          \A i \in DOMAIN cycle.sends :
              /\ CarriesExactly(cycle.sends[i], cycle.mutations)
              /\ cycle.sends[i].packets = cycle.sends[1].packets

C12_Order ==
    pcTick' # pcTick =>
        \/ pcTick = "idle" /\ pcTick' = "ticked" /\ sent' = sent
        \/ pcTick = "ticked" /\ pcTick' = "sent" /\ world' = world
        \/ pcTick = "sent" /\ pcTick' = "idle" /\ world' = EmptyWorld /\ sent' = sent

C12_TickCycle == []C12_Sets /\ [][C12_Order]_vars

\* Two recipients have been sent the packets of a cycle that changed nothing
\* in the dirty sets, after an earlier cycle that made changes.
C12_Witness ==
    /\ pcTick = "sent"
    /\ cycle.before
    /\ Len(cycle.sends) = 2
    /\ cycle.mutations.dirtyEntities = {}
    /\ cycle.mutations.discardEntities # {}

\* How many packets of the type t the sequence holds.
CountType(packets, t) == Cardinality({i \in DOMAIN packets : packets[i].type = t})

\* The ids of the Player entities whose socket is in the map, in the order
\* of world.entities.
Reachable == LET live == SelectSeq(entities, LAMBDA e : e.id \in sockets)
             IN [i \in DOMAIN live |-> live[i].id]

\* C13: the broadcast of a tick sends to the Player entities whose id is in
\* the socket map, each once and in the order of world.entities, passing over
\* the others; each of them is sent one partial game packet with the dirty
\* and the discard lists, one particles packet if there are particles and
\* none if there are none, and one sound packet for each once-sound.
C13_FanOut ==
    pcTick = "sent" =>
        /\ [i \in DOMAIN cycle.sends |-> cycle.sends[i].to] = Reachable
        /\ \A i \in DOMAIN cycle.sends :
              LET packets == cycle.sends[i].packets IN
              /\ CountType(packets, "game_partial") = 1
              /\ packets[1] = [type |-> "game_partial", full |-> FALSE,
                               dirtyEntities |-> world.dirtyEntities,
                               dirtyObstacles |-> world.dirtyObstacles,
                               discardEntities |-> world.discardEntities,
                               discardObstacles |-> world.discardObstacles]
              /\ CountType(packets, "particles") = IF world.particles # {} THEN 1 ELSE 0
              /\ CountType(packets, "sound_once") = Len(world.onceSounds)
              /\ Len(packets) = 1 + CountType(packets, "particles") + Len(world.onceSounds)

\* The first Player of world.entities has closed and is passed over; the
\* second is sent a game packet and a sound packet, and no particles packet.
C13_Witness ==
    /\ pcTick = "sent"
    /\ Len(entities) = 2
    /\ entities[1].id \notin sockets
    /\ Len(cycle.sends) = 1 /\ cycle.sends[1].to = entities[2].id
    /\ world.particles = {} /\ Len(world.onceSounds) = 1
    /\ PacketTypes(cycle.sends[1].packets) = <<"game_partial", "sound_once">>

\* C14: while a cycle is running the only step taken is the next statement
\* of that cycle, so no other callback changes the Player fields,
\* world.entities, the socket map or the player count before postTick() has
\* returned, and no cycle starts inside another; the input world.tick() reads
\* is the input the handlers applied before the cycle.
C14_Seen == pcTick # "idle" => cycle.seen = velocity

C14_Step ==
    /\ pcTick # "idle" =>
          /\ pcTick' = (IF pcTick = "ticked" THEN "sent" ELSE "idle")
          /\ playerVars' = playerVars
          /\ entities' = entities
          /\ sockets' = sockets
          /\ numberOfPlayers' = numberOfPlayers
          /\ sockState' = sockState /\ pc' = pc /\ connected' = connected
    /\ pcTick' = "ticked" => pcTick = "idle"

C14_TickAtomic == []C14_Seen /\ [][C14_Step]_vars

\* world.tick() has run after a movement packet that followed an earlier
\* cycle, and has read the velocity that packet set.
C14_Witness ==
    /\ pcTick = "ticked"
    /\ cycle.before
    /\ moved[1] /\ velocity[1] # ZERO
    /\ cycle.seen[1] = velocity[1]
    /\ Len(entities) = 2

\* The first occupied slot met from slot i on, stepping by unit modulo the
\* number of slots.
RECURSIVE FirstOccupied(_, _, _, _)
FirstOccupied(w, i, unit, left) ==
    IF w[i] \/ left = 0 THEN i
    ELSE FirstOccupied(w, (i + unit) % NumSlots, unit, left - 1)

\* C15: a relative switchweapon packet on an inventory that holds a weapon
\* always returns, and leaves holding on the first occupied slot met from
\* (holding + delta) mod N on, stepping by the sign of delta modulo N: a slot
\* in 0..N-1.
C15_RelativeSwitch ==
    \A c \in Conns :
        (switched[c].any /\ ~switched[c].setMode /\ Occupied(c) # {}) =>
            LET delta == switched[c].delta
                unit == IF delta < 0 THEN -1 ELSE 1
            IN /\ ~crashed
               /\ holding[c] \in Slots
               /\ holding[c] = FirstOccupied(weapons[c], (switched[c].from + delta) % NumSlots,
                                             unit, NumSlots)

\* C16: a switchweapon packet of either mode that finds holding on an
\* occupied slot leaves it on an occupied slot; a set-mode packet that names
\* an occupied slot sets holding to that slot, and one that names an empty
\* slot or no slot leaves holding as it was.
C16_SetMode ==
    \A c \in Conns :
        (switched[c].any /\ switched[c].setMode) =>
            LET target == switched[c].delta IN
            /\ (target \in Occupied(c)) => holding[c] = target
            /\ (target \notin Occupied(c)) => holding[c] = switched[c].from

C16_Step ==
    \A c \in Conns :
        (switched'[c] # switched[c] \/ holding'[c] # holding[c]) =>
            /\ holding[c] \in Occupied(c) => holding'[c] \in Occupied(c)
            /\ weapons'[c] = weapons[c]

C16_HoldingOccupied == []C16_SetMode /\ [][C16_Step]_vars

\* A set-mode packet named an empty slot of a player who holds an occupied
\* slot reached by a relative switch: holding has stayed where it was.
C16_Witness ==
    /\ switched[1].any /\ switched[1].setMode
    /\ switched[1].delta \in Slots \ Occupied(1)
    /\ holding[1] = switched[1].from
    /\ holding[1] \in Occupied(1) /\ holding[1] # 0

\* C17: once world.tick() and the broadcast of a cycle have run after the
\* close of an accepted connection, world.entities holds no Player of that
\* connection any more.
C17_ClosedPlayerRemoved ==
    \A c \in Conns :
        (pcTick = "sent" /\ pc[c] = "accepted" /\ sockState[c] = "closed") =>
            PlayersOf(c) = {}

\* C18: a bullet made with a budget of one tick that has been ticked and
\* overlapped nothing has used its budget up and is despawned.
C18_BulletExpiry ==
    (overlaps.ticked /\ overlaps.objects = {} /\ overlaps.others = {}) =>
        (bullet.ticks = 0 /\ bullet.despawn)

\* C19: the player's tryAttacking flag is true exactly when the last mouse
\* packet for button 0 was a press, and a step that is no mouse packet for
\* button 0 leaves the flag as it is.
C19_Flag == \A c \in Conns : tryAttacking[c] <=> (primary[c] = "press")

C19_Step ==
    \A c \in Conns :
        (buttons'[c] # buttons[c] /\ buttons'[c][0] = buttons[c][0]) =>
            tryAttacking'[c] = tryAttacking[c]

C19_AttackIntent == []C19_Flag /\ [][C19_Step]_vars

\* Button 0 is down and attacking, and another button has been pressed and
\* released since.
C19_Witness ==
    /\ primary[1] = "press" /\ tryAttacking[1]
    /\ \E b \in Buttons \ {0} : buttons[1][b] = "up"

\* The first target the bullet overlapped in the last tick: the first
\* overlapping object, or the first overlapping entity when no object
\* overlapped.
FirstTarget ==
    IF overlaps.objects # {} THEN objects[First(overlaps.objects)]
    ELSE others[First(overlaps.others)]

\* C20: when the first target a bullet overlaps in a tick is not vulnerable,
\* that target keeps its health, the bullet is despawned, and no other
\* target of either list has lost health.
C20_NonVulnerableTarget ==
    (/\ overlaps.ticked
     /\ overlaps.objects \cup overlaps.others # {}
     /\ ~FirstTarget.vulnerable) =>
        /\ FirstTarget.health = InitialHealth
        /\ bullet.despawn
        /\ Len(hits) = 1
        /\ \A i \in DOMAIN objects : objects[i].health = InitialHealth
        /\ \A i \in DOMAIN others : others[i].health = InitialHealth

\* The first object is not vulnerable; a vulnerable object behind it and a
\* vulnerable entity overlap the bullet too.
C20_Witness ==
    /\ overlaps.ticked
    /\ overlaps.objects = {1, 2} /\ overlaps.others # {}
    /\ ~objects[1].vulnerable /\ objects[2].vulnerable
    /\ others[First(overlaps.others)].vulnerable
    /\ bullet.despawn

====
